---- MODULE Spec2Model ----
(***************************************************************************)
(* Model of the social-light post publishing engine: the SQLite post store *)
(* (utils/db.mjs), the SocialAPI fan-out (utils/social/base.mjs), the      *)
(* publish sweep and its continuous mode (second half of                   *)
(* commands/clean.mjs), the web routes (server/index.mjs) and the CLI edit *)
(* command (commands/edit.mjs).                                            *)
(*                                                                         *)
(* Asynchronous handlers are cut at their awaits: one action per stretch   *)
(* of synchronous code.  The web server and the CLI are separate processes *)
(* that share the database file and nothing else.                          *)
(*                                                                         *)
(* A post row is modelled without title, created_at and updated_at: the    *)
(* store carries them but no decision of the engine reads them.            *)
(***************************************************************************)
EXTENDS Integers, Sequences, FiniteSets, TLC

\* ------------------------------------------------------------------ bounds
MaxPosts == 2        \* rows ever inserted (AUTOINCREMENT ids 1..MaxPosts)
MaxTasks == 2        \* handlers / sweeps in flight at the same time
MaxLog == 2          \* rows the logs table can take before a write throws
MaxNow == 1          \* last clock value
MaxDeliveries == 2   \* saturation of the delivery counter
RaceLog == 4         \* room in the logs table when attempts race
EditLog == 2         \* room in the logs table when posts are edited
ClockMax == 3        \* last clock value when schedules are explored

\* Length of a calendar day in clock ticks.
DayLen == 2

PostIds == 1..MaxPosts
TaskIds == 1..MaxTasks

\* ------------------------------------------------------- platform adapters
\* Platform identifiers as they are written in a post's platforms column.
Idents == {"Bluesky", "bluesky", "x", "X", "twitter", "tiktok", "nosuch"}

\* String.prototype.toLowerCase on the identifiers above.
ToLower(p) ==
  CASE p = "Bluesky" -> "bluesky"
    [] p = "X" -> "x"
    [] OTHER -> p

\* Keys of SocialAPI.platforms and of the result map.
Keys == {ToLower(p) : p \in Idents}

NoInstance == [type |-> "none", authenticated |-> FALSE]

\* A factory that switches on the identifier as it is written.
FactoryCreateCaseSensitive(platform) ==
  CASE platform \in {"twitter", "x"} -> "TwitterPlatform"
    [] platform = "bluesky" -> "BlueskyPlatform"
    [] platform = "tiktok" -> "TikTokPlatform"
    [] OTHER -> "none"

\* PlatformFactory.create: the adapter class for a lower-cased identifier,
\* "none" where the switch throws Unsupported platform.
FactoryCreate(platform) ==
  CASE ToLower(platform) \in {"twitter", "x"} -> "TwitterPlatform"
    [] ToLower(platform) = "bluesky" -> "BlueskyPlatform"
    [] ToLower(platform) = "tiktok" -> "TikTokPlatform"
    [] OTHER -> "none"

\* isConfigured of an instance built by initPlatform(platformLower), that is
\* with config = {}: Twitter and TikTok read only this.config and are never
\* configured; Bluesky also accepts BLUESKY_HANDLE / BLUESKY_APP_PASSWORD
\* from the environment (env).
isConfigured(type, env) == type = "BlueskyPlatform" /\ env

\* An authenticate() whose catch block would not reset the flag.
authenticateKeepFlag(inst, env, netOk) ==
  IF ~isConfigured(inst.type, env)
    THEN [inst |-> inst, error |-> "not_configured"]
    ELSE IF netOk
      THEN [inst |-> [inst EXCEPT !.authenticated = TRUE], error |-> ""]
      ELSE [inst |-> inst, error |-> "auth_failed"]

\* authenticate() of an adapter: throws before touching the flag when not
\* configured; otherwise the session request decides (netOk).
\* Result: the instance afterwards and the error thrown ("" for none).
authenticate(inst, env, netOk) ==
  IF ~isConfigured(inst.type, env)
    THEN [inst |-> inst, error |-> "not_configured"]
    ELSE IF netOk
      THEN [inst |-> [inst EXCEPT !.authenticated = TRUE], error |-> ""]
      ELSE [inst |-> [inst EXCEPT !.authenticated = FALSE],
            error |-> "auth_failed"]

\* The adapter's own post(): Bluesky and Twitter need a non-empty text,
\* TikTok needs mediaUrls, which SocialAPI.post never receives from the
\* engine; then the create request decides (netOk).  Called with
\* authenticated = TRUE (see SocialAPIStep).  "" means delivered.
adapterPost(inst, text, netOk) ==
  CASE inst.type = "TikTokPlatform" -> "media_required"
    [] text = "" -> "text_required"
    [] ~netOk -> "post_failed"
    [] OTHER -> ""

\* SocialAPI.initPlatform: create, store under the lower-cased key, and
\* authenticate if configured; every throw is swallowed (returns false).
initPlatform(ad, platform, env, netOk) ==
  LET type == FactoryCreate(platform)
      key == ToLower(platform)
      fresh == [type |-> type, authenticated |-> FALSE]
  IN IF type = "none" THEN ad
     ELSE IF isConfigured(type, env)
       THEN [ad EXCEPT ![key] = authenticate(fresh, env, netOk).inst]
       ELSE [ad EXCEPT ![key] = fresh]

\* An attempt that would authenticate on every call, whatever the flag says.
platformAttemptAlwaysAuth(ad, platform, text, env, net) ==
  LET key == ToLower(platform)
      ad1 == IF ad[key] = NoInstance
               THEN initPlatform(ad, key, env, net.init) ELSE ad
      inst1 == ad1[key]
  IN IF inst1 = NoInstance
       THEN [ad |-> ad1, error |-> "not_initialized"]
     ELSE LET au == authenticate(inst1, env, net.auth)
              ad2 == [ad1 EXCEPT ![key] = au.inst]
          IN IF au.error # ""
               THEN [ad |-> ad2, error |-> au.error]
               ELSE [ad |-> ad2, error |-> adapterPost(au.inst, text, net.post)]

\* One iteration of the for loop of SocialAPI.post up to the point where
\* the outcome is stored: resolve, authenticate lazily, post.
\* net = [init, auth, post]: what the three network calls answer.
\* Result: adapters afterwards, error ("" = the adapter delivered).
platformAttempt(ad, platform, text, env, net) ==
  LET key == ToLower(platform)
      ad1 == IF ad[key] = NoInstance
               THEN initPlatform(ad, key, env, net.init) ELSE ad
      inst1 == ad1[key]
  IN IF inst1 = NoInstance
       THEN [ad |-> ad1, error |-> "not_initialized"]
     ELSE LET au == IF inst1.authenticated
                      THEN [inst |-> inst1, error |-> ""]
                      ELSE authenticate(inst1, env, net.auth)
              ad2 == [ad1 EXCEPT ![key] = au.inst]
          IN IF au.error # ""
               THEN [ad |-> ad2, error |-> au.error]
               ELSE [ad |-> ad2, error |-> adapterPost(au.inst, text, net.post)]

\* -------------------------------------------------------------- the clock
\* Instants are UTC clock ticks; a local wall clock is UTC + tz ticks.
\* publish_date column values: NULL, '' (the edit command without a date),
\* 'YYYY-MM-DD' (date) and 'YYYY-MM-DD HH:MM' (datetime).
NullDate == [kind |-> "null", day |-> 0, tod |-> 0]
EmptyDate == [kind |-> "empty", day |-> 0, tod |-> 0]
DateOnly(d) == [kind |-> "date", day |-> d, tod |-> 0]
DateTime(d, m) == [kind |-> "datetime", day |-> d, tod |-> m]

\* new Date(str): a date-only ISO string is UTC midnight, a string with a
\* time is local wall-clock time.
ParseDate(pd, zone) ==
  IF pd.kind = "date" THEN pd.day * DayLen
  ELSE pd.day * DayLen + pd.tod - zone

\* date.setHours(0, 0, 0, 0): start of the local day holding the instant.
StartOfLocalDay(t, zone) == ((t + zone) \div DayLen) * DayLen - zone

\* isEligibleForPublishing of the sweep: both sides truncated to the day.
isEligibleForPublishing(post, t, zone) ==
  IF post.publish_date.kind \in {"null", "empty"} THEN TRUE
  ELSE StartOfLocalDay(ParseDate(post.publish_date, zone), zone)
         <= StartOfLocalDay(t, zone)

\* The date check of POST /api/publish/:id: TRUE when the request is let
\* through.  A value with a time is compared as an instant, a date-only
\* value from the start of its day.
webEligible(post, t, zone) ==
  IF post.publish_date.kind \in {"null", "empty"} THEN TRUE
  ELSE IF post.publish_date.kind = "datetime"
    THEN ~(ParseDate(post.publish_date, zone) > t)
    ELSE ~(StartOfLocalDay(ParseDate(post.publish_date, zone), zone) > t)

\* ------------------------------------------------------------ the post store
\* A slot of the posts table: exists = FALSE before the INSERT and after a
\* DELETE.  platforms is the comma-separated column as a sequence; <<>> is
\* the empty string.
NoRow ==
  [exists |-> FALSE, content |-> "", platforms |-> <<>>,
   publish_date |-> NullDate, published |-> 0]

\* ORDER BY publish_date ASC: NULL first, then text in byte order; rows with
\* equal keys come in rowid order.
DateRank(pd) ==
  CASE pd.kind = "null" -> 0
    [] pd.kind = "empty" -> 1
    [] pd.kind = "date" -> 2 + pd.day * (DayLen + 1)
    [] OTHER -> 2 + pd.day * (DayLen + 1) + 1 + pd.tod

RowBefore(ps, a, b) ==
  \/ DateRank(ps[a].publish_date) < DateRank(ps[b].publish_date)
  \/ DateRank(ps[a].publish_date) = DateRank(ps[b].publish_date) /\ a < b

RECURSIVE SortIds(_, _)
SortIds(ps, ids) ==
  IF ids = {} THEN <<>>
  ELSE LET first == CHOOSE a \in ids : \A b \in ids \ {a} : RowBefore(ps, a, b)
       IN <<first>> \o SortIds(ps, ids \ {first})

\* getPosts({published}): ids of the matching rows in query order.
getPosts(ps, published) ==
  SortIds(ps, {id \in PostIds : ps[id].exists /\ ps[id].published = published})

\* createPost: INSERT of content, platforms, publish_date; published takes
\* its column default 0.  The id is the next AUTOINCREMENT value.
createPost(ps, id, post) ==
  [ps EXCEPT ![id] = [exists |-> TRUE, content |-> post.content,
                      platforms |-> post.platforms,
                      publish_date |-> post.publish_date, published |-> 0]]

\* The columns updatePost lets through.
UpdatableFields == {"title", "content", "platforms", "publish_date", "published"}

\* updatePost(id, updates): updates is a function from field names to values.
\* Result: the table afterwards and the boolean returned.
updatePost(ps, id, updates) ==
  LET fields == DOMAIN updates \cap UpdatableFields
  IN IF fields = {} THEN [posts |-> ps, ok |-> FALSE]
     ELSE IF ~ps[id].exists THEN [posts |-> ps, ok |-> FALSE]
     ELSE [posts |-> [ps EXCEPT ![id] =
                        [f \in DOMAIN ps[id] |->
                           IF f \in fields THEN updates[f] ELSE ps[id][f]]],
           ok |-> TRUE]

\* markAsPublished(id): UPDATE ... SET published = 1 WHERE id = ?.
\* Result: the table afterwards and the number of rows changed.
markAsPublished(ps, id) ==
  IF ps[id].exists
    THEN [posts |-> [ps EXCEPT ![id].published = 1], changes |-> 1]
    ELSE [posts |-> ps, changes |-> 0]

\* logAction: INSERT INTO logs.  ok = FALSE is the INSERT throwing.
LogEntry(action, about) == [action |-> action, about |-> about]

\* A log that keeps only its latest entry.
logActionLatestOnly(lg, action, about, ok) ==
  IF ok THEN <<LogEntry(action, about)>> ELSE lg

logAction(lg, action, about, ok) == IF ok THEN Append(lg, LogEntry(action, about)) ELSE lg

\* ------------------------------------------------------------------ state
VARIABLES
  posts,       \* the posts table: PostIds -> row
  nextId,      \* next AUTOINCREMENT id
  log,         \* the logs table, oldest first
  logCap,      \* rows the logs table can take before an INSERT throws
  now,         \* the wall clock (UTC ticks)
  tz,          \* offset of the machine's time zone, in ticks
  env,         \* BLUESKY_HANDLE and BLUESKY_APP_PASSWORD are set
  adapters,    \* SocialAPI.platforms of each process: key -> instance
  tasks,       \* web publish handlers and sweeps in flight
  cron,        \* continuous mode: "off", "initial", "scheduled", "stopped"
  editing,     \* post the CLI edit command is prompting for (0: none)
  ret,         \* the last direct call of a store function and its result
  delivered,   \* history: deliveries made per post and adapter key
  successSeen, \* history: posts for which a platform result was a success
  flips        \* history: 0 -> 1 transitions of each post's published flag

vars ==
  <<posts, nextId, log, logCap, now, tz, env, adapters, tasks, cron, editing,
    ret, delivered, successSeen, flips>>

storeVars == <<posts, nextId, log>>
histVars == <<delivered, successSeen, flips>>
envVars == <<logCap, tz, env>>

Procs == {"web", "cli"}

\* Inputs of the model: what a request body or a prompt can carry.
CreateBodies ==
  {[content |-> "a", platforms |-> <<"bluesky">>, publish_date |-> NullDate],
   [content |-> "a", platforms |-> <<"Bluesky", "nosuch">>,
    publish_date |-> DateTime(0, 1)],
   [content |-> "a", platforms |-> <<>>, publish_date |-> NullDate],
   [content |-> "", platforms |-> <<"bluesky">>, publish_date |-> NullDate]}
EditBodies ==
  {[content |-> "b", platforms |-> <<"bluesky">>, publish_date |-> NullDate],
   [content |-> "b", platforms |-> <<>>, publish_date |-> DateTime(0, 1)]}

EmptyResults == [k \in Keys |-> "none"]

IdleTask ==
  [kind |-> "none", pc |-> "idle", req |-> 0, list |-> <<>>, i |-> 0, j |-> 0,
   results |-> EmptyResults, errors |-> 0, resp |-> ""]
\* req is the :id of a web request; errors is 1 once the errors array of
\* SocialAPI.post is non-empty.

\* Outcomes a logs INSERT can have: it throws once the table is full.
LogOks == IF Len(log) < logCap THEN BOOLEAN ELSE {FALSE}

NetAnswers == [init : BOOLEAN, auth : BOOLEAN, post : BOOLEAN]

Snapshot(ps, id) ==
  [id |-> id, content |-> ps[id].content, platforms |-> ps[id].platforms]

Bump(n) == IF n < MaxDeliveries THEN n + 1 ELSE n

\* Process whose SocialAPI singleton a task uses.
ProcOf(task) == IF task.kind = "web" THEN "web" ELSE "cli"

\* ret records the last direct call of a store function: the function, the
\* id, the field set of its updates, what it returned and the table it found.
Call(op, id, fields, ok, before) ==
  [op |-> op, id |-> id, fields |-> fields, ok |-> ok, before |-> before]

NoCall == Call("", 0, {}, FALSE, <<>>)

\* The state a process finds at start-up, given what earlier runs left in
\* the posts table and how much room the logs table has.
Start(table, next, cap, zone, hasEnv) ==
  /\ posts = table
  /\ nextId = next
  /\ log = <<>>
  /\ logCap = cap
  /\ now = 0
  /\ tz = zone
  /\ env = hasEnv
  /\ adapters = [p \in Procs |-> [k \in Keys |-> NoInstance]]
  /\ tasks = [t \in TaskIds |-> IdleTask]
  /\ cron = "off"
  /\ editing = 0
  /\ ret = NoCall
  /\ delivered = [id \in PostIds |-> [k \in Keys |-> 0]]
  /\ successSeen = [id \in PostIds |-> FALSE]
  /\ flips = [id \in PostIds |-> 0]

\* Tables left by earlier create commands: rows 1..Len(bodies), unpublished.
Table(bodies) ==
  [id \in PostIds |->
     IF id <= Len(bodies) THEN createPost([i \in PostIds |-> NoRow], id, bodies[id])[id]
     ELSE NoRow]

Draft(platforms, schedule) ==
  [content |-> "a", platforms |-> platforms, publish_date |-> schedule]

SeedTables ==
  {Table(<<Draft(<<"bluesky">>, NullDate)>>),
   Table(<<Draft(<<"Bluesky", "nosuch">>, DateTime(0, 1)),
           Draft(<<"bluesky">>, NullDate)>>),
   Table(<<Draft(<<>>, NullDate), Draft(<<"bluesky">>, NullDate)>>)}

\* The publish engine over a store filled by earlier commands.
Init == \E table \in SeedTables : Start(table, MaxPosts + 1, MaxLog, 0, TRUE)

\* ------------------------------------------------------ editing operations
\* POST /api/posts.
WebCreatePost(body, logOk) ==
  /\ nextId <= MaxPosts
  /\ IF body.content = ""
       THEN UNCHANGED storeVars
       ELSE /\ posts' = createPost(posts, nextId, body)
            /\ nextId' = nextId + 1
            /\ log' = logAction(log, "post_created", nextId, logOk)
  /\ UNCHANGED <<now, envVars, adapters, tasks, cron, editing, ret, histVars>>

\* What the create command hands to createPost: the content of the file
\* given with --file (or the lines typed), the ticked platforms, and date
\* and time joined.  Nothing checks the content.
CliBodies ==
  {[content |-> c, platforms |-> <<"Bluesky">>, publish_date |-> DateTime(0, 1)] :
     c \in {"", "a"}}

\* The create command: createPost, then the post_created entry.  A throwing
\* logAction ends the command with exit code 1, the row stays.
CliCreatePost(post, logOk) ==
  /\ nextId <= MaxPosts
  /\ posts' = createPost(posts, nextId, post)
  /\ nextId' = nextId + 1
  /\ log' = logAction(log, "post_created", nextId, logOk)
  /\ UNCHANGED <<now, envVars, adapters, tasks, cron, editing, ret, histVars>>

\* A PUT route that would forward the published field of the body as well.
WebPutUpdatesWithFlag(body) ==
  [f \in {"content", "platforms", "publish_date", "published"} |->
     IF f = "published" THEN 0 ELSE body[f]]

\* The updates object PUT /api/posts/:id hands to updatePost.
WebPutUpdates(body) ==
  [f \in {"content", "platforms", "publish_date"} |-> body[f]]

\* PUT /api/posts/:id.
WebPutPost(id, body, logOk) ==
  /\ IF ~posts[id].exists
       THEN UNCHANGED storeVars
       ELSE LET u == updatePost(posts, id, WebPutUpdates(body))
            IN /\ posts' = u.posts
               /\ nextId' = nextId
               /\ IF u.ok
                    THEN /\ log' = logAction(log, "post_updated", id, logOk)
                    ELSE /\ log' = log
  /\ UNCHANGED <<now, envVars, adapters, tasks, cron, editing, ret, histVars>>

\* editPost up to its prompts: the post is picked from the unpublished list.
EditBegin(id) ==
  /\ editing = 0
  /\ \E n \in 1..Len(getPosts(posts, 0)) : getPosts(posts, 0)[n] = id
  /\ editing' = id
  /\ UNCHANGED <<storeVars, now, envVars, adapters, tasks, cron, ret, histVars>>

\* The updates object editPost hands to updatePost.
EditUpdates(answers) ==
  [f \in {"content", "platforms", "publish_date"} |-> answers[f]]

\* editPost after its prompts: updatePost, then the post_edited entry.  A
\* throwing logAction ends the command with exit code 1.
EditCommit(answers, logOk) ==
  /\ editing # 0
  /\ LET u == updatePost(posts, editing, EditUpdates(answers))
     IN /\ posts' = u.posts
        /\ log' = IF u.ok THEN logAction(log, "post_edited", editing, logOk) ELSE log
  /\ editing' = 0
  /\ UNCHANGED <<nextId, now, envVars, adapters, tasks, cron, ret, histVars>>

\* deletePost(id), behind POST /api/posts/:id/delete: a throwing logAction
\* is caught after the row is gone.
WebDeletePost(id, logOk) ==
  /\ IF ~posts[id].exists
       THEN UNCHANGED <<posts, log>>
       ELSE /\ posts' = [posts EXCEPT ![id] = NoRow]
            /\ log' = logAction(log, "post_deleted", id, logOk)
  /\ UNCHANGED <<nextId, now, envVars, adapters, tasks, cron, editing, ret, histVars>>

\* deletePosts(options) of the clean command.
CleanPosts(options, logOk) ==
  /\ posts' = [id \in PostIds |->
                 IF /\ posts[id].exists
                    /\ \/ options.published /\ posts[id].published = 1
                       \/ options.unpublished /\ posts[id].published = 0
                   THEN NoRow ELSE posts[id]]
  /\ log' = logAction(log, "posts_cleaned", 0, logOk)
  /\ UNCHANGED <<nextId, now, envVars, adapters, tasks, cron, editing, ret, histVars>>

\* Time passes.
ClockTick ==
  /\ now < MaxNow
  /\ now' = now + 1
  /\ UNCHANGED <<storeVars, envVars, adapters, tasks, cron, editing, ret, histVars>>

\* ------------------------------------------------------- publish attempts
\* First index >= i of a listed post that has platforms: the sweep skips
\* posts with an empty platforms column without calling SocialAPI.post.
RECURSIVE SkipNoPlatforms(_, _)
SkipNoPlatforms(list, i) ==
  IF i > Len(list) THEN i
  ELSE IF list[i].platforms = <<>> THEN SkipNoPlatforms(list, i + 1)
  ELSE i

\* The sweep's for loop arriving at index i: either SocialAPI.post is called
\* for the next post that has platforms, or the loop is over.
SweepAt(task, i) ==
  LET n == SkipNoPlatforms(task.list, i)
  IN [task EXCEPT !.i = n, !.j = 1, !.results = EmptyResults, !.errors = 0,
                  !.pc = IF n > Len(task.list) THEN "done" ELSE "fanout"]

\* A sweep without the try/catch in its loop body: the exception ends it.
SweepCatchAbort(task) == [task EXCEPT !.pc = "done"]

\* What the sweep does when publishing post i threw: the catch of the loop
\* body logs to the console and the loop goes on.
SweepCatch(task) == SweepAt(task, task.i + 1)

\* What happens to a task when its publish attempt throws.
OnThrow(task) ==
  IF task.kind = "web"
    THEN [task EXCEPT !.pc = "done", !.resp = "500 error"]
    ELSE SweepCatch(task)

\* A publish route without the check of the published flag.
WebPublishBeginUnguarded(t, id) ==
  /\ tasks[t].kind = "none"
  /\ LET post == posts[id]
         answer(r) == [IdleTask EXCEPT !.kind = "web", !.pc = "done",
                                       !.req = id, !.resp = r]
     IN tasks' = [tasks EXCEPT ![t] =
          CASE ~post.exists -> answer("404 not found")
            [] post.platforms = <<>> -> answer("400 no platforms")
            [] ~webEligible(post, now, tz) -> answer("400 scheduled for future")
            [] OTHER -> [IdleTask EXCEPT !.kind = "web", !.pc = "fanout",
                                         !.req = id,
                                         !.list = <<Snapshot(posts, id)>>,
                                         !.i = 1, !.j = 1]]
  /\ UNCHANGED <<storeVars, now, envVars, adapters, cron, editing, ret, histVars>>

\* A publish route that would write a log entry for every request it
\* refuses.
WebPublishBeginLoggingRefusals(t, id) ==
  /\ tasks[t].kind = "none"
  /\ LET post == posts[id]
         answer(r) == [IdleTask EXCEPT !.kind = "web", !.pc = "done",
                                       !.req = id, !.resp = r]
         due == /\ post.exists /\ post.published = 0
                /\ post.platforms # <<>> /\ webEligible(post, now, tz)
     IN /\ tasks' = [tasks EXCEPT ![t] =
             CASE ~post.exists -> answer("404 not found")
               [] post.published # 0 -> answer("400 already published")
               [] post.platforms = <<>> -> answer("400 no platforms")
               [] ~webEligible(post, now, tz) -> answer("400 scheduled for future")
               [] OTHER -> [IdleTask EXCEPT !.kind = "web", !.pc = "fanout",
                                            !.req = id,
                                            !.list = <<Snapshot(posts, id)>>,
                                            !.i = 1, !.j = 1]]
        /\ log' = IF due THEN log
                  ELSE logAction(log, "post_publish_failed", id, Len(log) < logCap)
  /\ UNCHANGED <<posts, nextId, now, envVars, adapters, cron, editing, ret, histVars>>

\* POST /api/publish/:id up to the call of SocialAPI.post.
WebPublishBegin(t, id) ==
  /\ tasks[t].kind = "none"
  /\ LET post == posts[id]
         answer(r) == [IdleTask EXCEPT !.kind = "web", !.pc = "done",
                                       !.req = id, !.resp = r]
     IN tasks' = [tasks EXCEPT ![t] =
          CASE ~post.exists -> answer("404 not found")
            [] post.published # 0 -> answer("400 already published")
            [] post.platforms = <<>> -> answer("400 no platforms")
            [] ~webEligible(post, now, tz) -> answer("400 scheduled for future")
            [] OTHER -> [IdleTask EXCEPT !.kind = "web", !.pc = "fanout",
                                         !.req = id,
                                         !.list = <<Snapshot(posts, id)>>,
                                         !.i = 1, !.j = 1]]
  /\ UNCHANGED <<storeVars, now, envVars, adapters, cron, editing, ret, histVars>>

\* publishEligiblePosts up to its first call of SocialAPI.post: list the
\* unpublished posts, keep the eligible ones.
EligibleList(ps, t, zone) ==
  LET ids == getPosts(ps, 0)
  IN SelectSeq([n \in 1..Len(ids) |-> Snapshot(ps, ids[n])],
               LAMBDA sn : isEligibleForPublishing(ps[sn.id], t, zone))

SweepStart(t, kind) ==
  tasks' = [tasks EXCEPT ![t] =
    SweepAt([IdleTask EXCEPT !.kind = kind,
                             !.list = EligibleList(posts, now, tz)], 1)]

\* publish without --continuous.
OneShotPublish(t) ==
  /\ tasks[t].kind = "none"
  /\ SweepStart(t, "oneshot")
  /\ UNCHANGED <<storeVars, now, envVars, adapters, cron, editing, ret, histVars>>

\* publish --continuous: the initial cycle, awaited before cron.schedule.
StartContinuous(t) ==
  /\ cron = "off"
  /\ tasks[t].kind = "none"
  /\ SweepStart(t, "initial")
  /\ cron' = "initial"
  /\ UNCHANGED <<storeVars, now, envVars, adapters, editing, ret, histVars>>

\* The cron callback, every minute: runContinuousPublish is started whatever
\* earlier cycles are doing.
CronTick(t) ==
  /\ cron = "scheduled"
  /\ tasks[t].kind = "none"
  /\ SweepStart(t, "tick")
  /\ UNCHANGED <<storeVars, now, envVars, adapters, cron, editing, ret, histVars>>

\* What one iteration of the for loop of SocialAPI.post can meet: the
\* outcome of resolve / authenticate / post under every answer of the
\* network, and whether the logAction of the try block (log1) and the one
\* of the catch block (log2) go through.  A logAction that is not reached
\* is recorded as TRUE.
StepOutcomes(task) ==
  LET cur == task.list[task.i]
      attempt(net) ==
        platformAttempt(adapters[ProcOf(task)], cur.platforms[task.j],
                        cur.content, env, net)
  IN {[att |-> attempt(net),
       log1 |-> (attempt(net).error = "") => l1,
       log2 |-> (attempt(net).error # "" \/ ~l1) => l2] :
        net \in NetAnswers, l1 \in LogOks, l2 \in LogOks}

\* One iteration of the for loop of SocialAPI.post, meeting outcome out.
SocialAPIIteration(t, out) ==
  /\ LET task == tasks[t]
         cur == task.list[task.i]
         key == ToLower(cur.platforms[task.j])
         sent == out.att.error = ""
         stored == sent /\ out.log1   \* the try block ran to its end
         error == IF sent THEN "log_failed" ELSE out.att.error
         thrown == ~stored /\ ~out.log2 \* logAction threw inside the catch
         task1 == [task EXCEPT !.results[key] = IF stored THEN "ok" ELSE error,
                               !.errors = IF stored THEN @ ELSE 1,
                               !.j = @ + 1]
         task2 == IF task.j = Len(cur.platforms)
                    THEN [task1 EXCEPT !.pc = "aggregate"] ELSE task1
     IN /\ adapters' = [adapters EXCEPT ![ProcOf(task)] = out.att.ad]
        /\ log' = IF stored THEN logAction(log, "post_created", key, TRUE)
                  ELSE logAction(log, "post_error", key, out.log2)
        /\ tasks' = [tasks EXCEPT ![t] = IF thrown THEN OnThrow(task1) ELSE task2]
        /\ delivered' = IF sent
             THEN [delivered EXCEPT ![cur.id][key] = Bump(@)] ELSE delivered
        /\ successSeen' = IF stored
             THEN [successSeen EXCEPT ![cur.id] = TRUE] ELSE successSeen
  /\ UNCHANGED <<posts, nextId, now, envVars, cron, editing, ret, flips>>

\* The for loop of SocialAPI.post advances by one platform.
SocialAPIStep(t) ==
  /\ tasks[t].pc = "fanout"
  /\ \E out \in StepOutcomes(tasks[t]) : SocialAPIIteration(t, out)

\* What SocialAPI.post returns when its loop is over: the result map and
\* success, which is errors.length === 0.
postReturn(task) == [results |-> task.results, success |-> task.errors = 0]

\* A caller that would not look at the results before marking the post.
anySuccessUnchecked(results) == TRUE

\* anySuccess of both callers of SocialAPI.post.
anySuccess(results) == \E k \in Keys : results[k] = "ok"

\* The code after SocialAPI.post returned, in the web route and in the sweep:
\* markAsPublished and the post_published entry on success, nothing on
\* failure.
PublishFinish(t, logOk) ==
  /\ tasks[t].pc = "aggregate"
  /\ LET task == tasks[t]
         id == task.list[task.i].id
         m == markAsPublished(posts, id)
     IN IF anySuccess(task.results)
          THEN /\ posts' = m.posts
               /\ flips' = IF posts[id].exists /\ posts[id].published = 0
                             THEN [flips EXCEPT ![id] = Bump(@)] ELSE flips
               /\ log' = logAction(log, "post_published", id, logOk)
               /\ tasks' = [tasks EXCEPT ![t] =
                    IF ~logOk THEN OnThrow(task)
                    ELSE IF task.kind = "web"
                      THEN [task EXCEPT !.pc = "done", !.resp = "200 published"]
                      ELSE SweepAt(task, task.i + 1)]
          ELSE /\ UNCHANGED <<posts, flips, log>>
               /\ tasks' = [tasks EXCEPT ![t] =
                    IF task.kind = "web"
                      THEN [task EXCEPT !.pc = "done", !.resp = "500 failed"]
                      ELSE SweepAt(task, task.i + 1)]
  /\ UNCHANGED <<nextId, now, envVars, adapters, cron, editing, ret,
                 delivered, successSeen>>

\* A finished handler or sweep leaves; after the initial cycle of the
\* continuous mode the cron job is scheduled.
Retire(t) ==
  /\ tasks[t].pc = "done"
  /\ tasks' = [tasks EXCEPT ![t] = IdleTask]
  /\ cron' = IF tasks[t].kind = "initial" THEN "scheduled" ELSE cron
  /\ UNCHANGED <<storeVars, now, envVars, adapters, editing, ret, histVars>>

Next ==
  \/ ClockTick
  \/ \E t \in TaskIds, id \in PostIds : WebPublishBegin(t, id)
  \/ \E t \in TaskIds : OneShotPublish(t)
  \/ \E t \in TaskIds : StartContinuous(t)
  \/ \E t \in TaskIds : CronTick(t)
  \/ \E t \in TaskIds : SocialAPIStep(t)
  \/ \E t \in TaskIds, ok \in LogOks : PublishFinish(t, ok)
  \/ \E t \in TaskIds : Retire(t)

Spec == Init /\ [][Next]_vars

\* Two publish attempts racing for one post, with room for every log entry.
InitRace ==
  Start(Table(<<Draft(<<"bluesky">>, NullDate)>>), MaxPosts + 1, RaceLog, 0, TRUE)

SpecRace == InitRace /\ [][Next]_vars

\* Every path that writes the posts table: the web routes, the CLI edit and
\* clean commands, and publishing one at a time.  The store is empty and
\* one id is left to give out (earlier rows were created and cleaned).
InitEdit == Start([id \in PostIds |-> NoRow], MaxPosts, EditLog, 0, TRUE)

NextEdit ==
  \/ \E body \in CreateBodies, ok \in LogOks : WebCreatePost(body, ok)
  \/ \E post \in CliBodies, ok \in LogOks : CliCreatePost(post, ok)
  \/ \E id \in PostIds, body \in EditBodies, ok \in LogOks : WebPutPost(id, body, ok)
  \/ \E id \in PostIds : EditBegin(id)
  \/ \E answers \in EditBodies, ok \in LogOks : EditCommit(answers, ok)
  \/ \E id \in PostIds, ok \in LogOks : WebDeletePost(id, ok)
  \/ \E o \in [published : BOOLEAN, unpublished : BOOLEAN], ok \in LogOks :
       CleanPosts(o, ok)
  \/ \E id \in PostIds : WebPublishBegin(1, id)
  \/ OneShotPublish(1)
  \/ SocialAPIStep(1)
  \/ \E ok \in LogOks : PublishFinish(1, ok)
  \/ Retire(1)

SpecEdit == InitEdit /\ [][NextEdit]_vars

\* One process calling SocialAPI.post for one post at a time, over every
\* shape of platforms list.
FanoutLists ==
  {<<"bluesky">>, <<"nosuch", "Bluesky">>, <<"Bluesky", "nosuch">>,
   <<"Bluesky", "bluesky">>, <<"x", "twitter">>, <<"X", "bluesky">>,
   <<"tiktok", "nosuch", "bluesky">>}

InitFanout ==
  \E pl \in FanoutLists, hasEnv \in BOOLEAN :
    Start(Table(<<Draft(pl, NullDate)>>), MaxPosts + 1, RaceLog, 0, hasEnv)

NextFanout ==
  \/ \E id \in PostIds : WebPublishBegin(1, id)
  \/ OneShotPublish(1)
  \/ SocialAPIStep(1)
  \/ \E ok \in LogOks : PublishFinish(1, ok)
  \/ Retire(1)

SpecFanout == InitFanout /\ [][NextFanout]_vars

\* ------------------------------------------------- the store as a library
\* Direct calls of the functions utils/db.mjs exports, with any arguments.
UpdateArgs ==
  {<<>>,
   [content |-> "b"],
   [title |-> "t"],
   [created_at |-> "c"],
   [published |-> 0],
   [published |-> 1],
   [content |-> "b", published |-> 0],
   [platforms |-> <<"bluesky">>, publish_date |-> DateOnly(1)],
   [publish_date |-> EmptyDate]}

StoreUpdatePost(id, updates) ==
  /\ LET u == updatePost(posts, id, updates)
     IN /\ posts' = u.posts
        /\ ret' = Call("updatePost", id, DOMAIN updates, u.ok, posts)
  /\ UNCHANGED <<nextId, log, now, envVars, adapters, tasks, cron, editing, histVars>>

StoreMarkAsPublished(id) ==
  /\ LET m == markAsPublished(posts, id)
     IN /\ posts' = m.posts
        /\ ret' = Call("markAsPublished", id, {}, m.changes > 0, posts)
  /\ UNCHANGED <<nextId, log, now, envVars, adapters, tasks, cron, editing, histVars>>

StoreCreatePost(post) ==
  /\ nextId <= MaxPosts
  /\ posts' = createPost(posts, nextId, post)
  /\ nextId' = nextId + 1
  /\ ret' = Call("createPost", nextId, DOMAIN post, TRUE, posts)
  /\ UNCHANGED <<log, now, envVars, adapters, tasks, cron, editing, histVars>>

\* getPosts({published}): the call is recorded with the filter as its id.
StoreGetPosts(published) ==
  /\ ret' = Call("getPosts", published, {}, TRUE, posts)
  /\ UNCHANGED <<storeVars, now, envVars, adapters, tasks, cron, editing, histVars>>

InitStore == Start([id \in PostIds |-> NoRow], 1, MaxLog, 0, TRUE)

NextStore ==
  \/ \E id \in PostIds, updates \in UpdateArgs : StoreUpdatePost(id, updates)
  \/ \E id \in PostIds : StoreMarkAsPublished(id)
  \/ \E post \in CreateBodies : StoreCreatePost(post)
  \/ \E published \in {0, 1} : StoreGetPosts(published)

SpecStore == InitStore /\ [][NextStore]_vars

\* ----------------------------------------------------- schedules and zones
\* One scheduled post, a machine in any time zone, and the clock running
\* over two calendar days.
Zones == {-1, 0, 1}

Schedules ==
  {DateOnly(0), DateOnly(1), DateTime(0, 1), DateTime(1, 0), DateTime(1, 1)}

InitClock ==
  \E zone \in Zones, schedule \in Schedules :
    Start(Table(<<Draft(<<"bluesky">>, schedule)>>), MaxPosts + 1, MaxLog, zone, TRUE)

\* Time passes, over the longer horizon.
ClockAdvance ==
  /\ now < ClockMax
  /\ now' = now + 1
  /\ UNCHANGED <<storeVars, envVars, adapters, tasks, cron, editing, ret, histVars>>

NextClock ==
  \/ ClockAdvance
  \/ \E id \in PostIds : WebPublishBegin(1, id)
  \/ OneShotPublish(1)
  \/ SocialAPIStep(1)
  \/ \E ok \in LogOks : PublishFinish(1, ok)
  \/ Retire(1)

SpecClock == InitClock /\ [][NextClock]_vars

\* ------------------------------------------------ the adapters as objects
\* The fan-out of one process, and beside it direct calls of authenticate()
\* on the adapter instances the SocialAPI holds, whatever their flag.  The
\* record of the call carries the adapter's key in its fields.
DirectAuthenticate(p, k, netOk) ==
  /\ adapters[p][k] # NoInstance
  /\ LET au == authenticate(adapters[p][k], env, netOk)
     IN /\ adapters' = [adapters EXCEPT ![p][k] = au.inst]
        /\ ret' = Call("authenticate", 0, {k}, au.error = "", <<>>)
  /\ UNCHANGED <<storeVars, now, envVars, tasks, cron, editing, histVars>>

NextAdapter ==
  \/ \E k \in Keys, netOk \in BOOLEAN : DirectAuthenticate("web", k, netOk)
  \/ \E id \in PostIds : WebPublishBegin(1, id)
  \/ SocialAPIStep(1)
  \/ \E ok \in LogOks : PublishFinish(1, ok)
  \/ Retire(1)

SpecAdapter == InitFanout /\ [][NextAdapter]_vars

\* ---- publish --continuous on its own, with the store failing to list
\* A cycle whose error escaped runContinuousPublish: the rejected promise
\* ends the process and the scheduler with it.
CycleUncaught(c) == "off"

\* The catch of runContinuousPublish: the error is written to the console
\* and the scheduler is left as it was.
CycleCaught(c) == c

\* A cycle in which getPosts throws: publishEligiblePosts rejects before
\* any post is tried.  kind is "initial" (the cycle awaited before
\* cron.schedule) or "tick" (a cron callback).
CycleListFails(t, kind) ==
  /\ tasks[t].kind = "none"
  /\ cron = IF kind = "initial" THEN "off" ELSE "scheduled"
  /\ tasks' = [tasks EXCEPT ![t] =
       [IdleTask EXCEPT !.kind = kind, !.pc = "done", !.resp = "cycle error"]]
  /\ cron' = CycleCaught(IF kind = "initial" THEN "initial" ELSE cron)
  /\ ret' = Call("cycle_error", 0, {}, FALSE, <<>>)
  /\ UNCHANGED <<storeVars, now, envVars, adapters, editing, histVars>>

\* Ctrl+C: no signal handler is installed, the process ends with whatever
\* cycle is in flight.
StopContinuous ==
  /\ cron \in {"initial", "scheduled"}
  /\ cron' = "stopped"
  /\ tasks' = [t \in TaskIds |-> IdleTask]
  /\ UNCHANGED <<storeVars, now, envVars, adapters, editing, ret, histVars>>

ContLog == 2

ContinuousTables ==
  {Table(<<Draft(<<"Bluesky", "nosuch">>, NullDate)>>),
   Table(<<Draft(<<"bluesky">>, DateTime(0, 1))>>)}

InitContinuous ==
  \E table \in ContinuousTables, hasEnv \in BOOLEAN :
    Start(table, MaxPosts + 1, ContLog, 0, hasEnv)

NextContinuous ==
  \/ ClockTick
  \/ StartContinuous(1)
  \/ CronTick(1)
  \/ \E kind \in {"initial", "tick"} : CycleListFails(1, kind)
  \/ SocialAPIStep(1)
  \/ \E ok \in LogOks : PublishFinish(1, ok)
  \/ Retire(1)
  \/ StopContinuous

SpecContinuous == InitContinuous /\ [][NextContinuous]_vars

\* node-cron fires every minute and the event loop resumes every awaited
\* call, so a started cycle runs on; between the cycles that fail to list
\* the posts, cycles that list them keep coming.
SpecContinuousFair ==
  /\ SpecContinuous
  /\ WF_vars(StartContinuous(1))
  /\ SF_vars(CronTick(1))
  /\ WF_vars(SocialAPIStep(1))
  /\ WF_vars(\E ok \in LogOks : PublishFinish(1, ok))
  /\ WF_vars(Retire(1))

\* ============================================================ properties
SweepKinds == {"oneshot", "initial", "tick"}

\* ---- C1 (SpecFanout) --------------------------------------------------
\* C1: partial-failure isolation in SocialAPI.post.  Every iteration of the
\* fan-out loop either moves on to the next platform of the same post or
\* ends the call normally with a result for every requested platform: the
\* call never raises, whatever fails for one platform.
C1_PartialFailureIsolation ==
  [][\A t \in TaskIds :
       (tasks[t].pc = "fanout" /\ tasks'[t] # tasks[t]) =>
         /\ tasks'[t].pc \in {"fanout", "aggregate"}
         /\ tasks'[t].i = tasks[t].i
         /\ tasks'[t].j = tasks[t].j + 1
         /\ tasks'[t].pc = "aggregate" =>
              \A n \in 1..Len(tasks[t].list[tasks[t].i].platforms) :
                tasks'[t].results[ToLower(tasks[t].list[tasks[t].i].platforms[n])]
                  # "none"]_vars

\* ---- C2 (SpecRace) ----------------------------------------------------
\* C2: no duplicate delivery under concurrency.  Whatever the interleaving
\* of publish attempts, each post is delivered to each platform at most
\* once and has at most one post_published log entry.
C2_NoDuplicateDelivery ==
  \A id \in PostIds :
    /\ \A k \in Keys : delivered[id][k] <= 1
    /\ Cardinality({n \in 1..Len(log) : log[n] = LogEntry("post_published", id)}) <= 1

\* ---- C3 (Spec) --------------------------------------------------------
\* C3: overlap prevention in continuous mode.  At most one publish cycle
\* of the continuous mode is running in any reachable state.
C3_AtMostOneCycle ==
  Cardinality({t \in TaskIds : /\ tasks[t].kind \in {"initial", "tick"}
                               /\ tasks[t].pc \in {"fanout", "aggregate"}}) <= 1

\* ---- C4 (Spec) --------------------------------------------------------
\* C4: partial failure yields overall success.  When a web publish attempt
\* on an unpublished post has answered, the post is published if and only
\* if a platform result of the attempt has success = true.
C4_PublishedIffAnySuccess ==
  \A t \in TaskIds :
    (tasks[t].kind = "web" /\ tasks[t].pc = "done" /\ tasks[t].list # <<>>) =>
      (posts[tasks[t].req].published = 1 <=> anySuccess(tasks[t].results))

\* ---- C5 (Spec) --------------------------------------------------------
\* C5: idempotent publish.  A publish request for a post whose published
\* flag is set is answered with the already-published error and is over at
\* once: no adapter is used, no post row changes, no log entry is written.
\* A sweep lists no post that is published when it lists.
C5_IdempotentPublish ==
  [][\A t \in TaskIds :
       /\ \A id \in PostIds :
            (/\ tasks[t].kind = "none" /\ tasks'[t].kind = "web"
             /\ tasks'[t].req = id
             /\ posts[id].exists /\ posts[id].published = 1) =>
              /\ tasks'[t].pc = "done"
              /\ tasks'[t].resp = "400 already published"
              /\ posts' = posts /\ log' = log
              /\ adapters' = adapters /\ delivered' = delivered
       /\ (tasks[t].kind = "none" /\ tasks'[t].kind \in SweepKinds) =>
            \A n \in 1..Len(tasks'[t].list) :
              posts[tasks'[t].list[n].id].published = 0]_vars

\* A refused request for a published post is on the table.
C5_Witness ==
  \E t \in TaskIds :
    /\ tasks[t].kind = "web" /\ tasks[t].resp = "400 already published"
    /\ posts[tasks[t].req].published = 1

\* ---- C6 (Spec) --------------------------------------------------------
\* C6: per-post error boundary in a sweep.  A step of a sweep that is
\* publishing the post at index i either stays with that post or moves to
\* the next listed post that has platforms; the sweep is over only when it
\* is past the end of its list, whatever was thrown on the way.
C6_SweepErrorBoundary ==
  [][\A t \in TaskIds :
       (/\ tasks[t].kind \in SweepKinds
        /\ tasks[t].pc \in {"fanout", "aggregate"}
        /\ tasks'[t] # tasks[t]) =>
         /\ tasks'[t].kind = tasks[t].kind
         /\ tasks'[t].list = tasks[t].list
         /\ \/ /\ tasks'[t].i = tasks[t].i
               /\ tasks'[t].pc \in {"fanout", "aggregate"}
            \/ /\ tasks'[t].i > tasks[t].i
               /\ \A n \in (tasks[t].i + 1)..(tasks'[t].i - 1) :
                    n <= Len(tasks[t].list) => tasks[t].list[n].platforms = <<>>
               /\ tasks'[t].pc =
                    IF tasks'[t].i > Len(tasks[t].list) THEN "done" ELSE "fanout"]_vars

\* A sweep is publishing its second post after the first one threw: the
\* first post was delivered, and neither the post_created entry of the try
\* block nor the post_error entry of the catch block could be written.
C6_Witness ==
  \E t \in TaskIds :
    /\ tasks[t].kind \in SweepKinds /\ tasks[t].pc = "fanout" /\ tasks[t].i = 2
    /\ \A u \in TaskIds \ {t} : tasks[u].kind = "none"
    /\ delivered[tasks[t].list[1].id]["bluesky"] = 1
    /\ posts[tasks[t].list[1].id].published = 0
    /\ log = <<>>

\* ---- C7 (Spec) --------------------------------------------------------
\* C7: a post is marked published only after an observed platform success.
\* Every published post has had a platform result with success = true in a
\* publish attempt for it, and its flag went from 0 to 1 exactly once.
C7_PublishedOnlyAfterSuccess ==
  \A id \in PostIds :
    /\ (posts[id].exists /\ posts[id].published = 1) =>
         (successSeen[id] /\ flips[id] = 1)
    /\ flips[id] <= 1

\* A post was published by two attempts that both saw a success.
C7_Witness ==
  \E id \in PostIds :
    /\ posts[id].exists /\ posts[id].published = 1
    /\ successSeen[id] /\ flips[id] = 1
    /\ delivered[id]["bluesky"] = 2

\* ---- C8 (SpecEdit) ----------------------------------------------------
\* C8: the published flag is monotonic.  No step of the web routes, the
\* CLI edit and clean commands or the publish engine takes a post that has
\* published = 1 to published = 0 while the post exists.
C8_PublishedMonotonic ==
  [][\A id \in PostIds :
       (posts[id].exists /\ posts[id].published = 1 /\ posts'[id].exists) =>
         posts'[id].published = 1]_vars

\* A published post that an update reached after its publish attempt had
\* begun: it has no platforms any more, and no attempt starts without.
C8_Witness ==
  \E id \in PostIds :
    /\ posts[id].exists /\ posts[id].published = 1
    /\ posts[id].content = "b" /\ posts[id].platforms = <<>>

\* ---- C9 (SpecStore) ---------------------------------------------------
\* C9: updatePost may not touch the published field.  A call of updatePost
\* whose updates contain published fails and leaves the posts table as it
\* found it.
C9_UpdateRejectsPublished ==
  (ret.op = "updatePost" /\ "published" \in ret.fields) =>
    (~ret.ok /\ posts = ret.before)

\* ---- C10 (SpecEdit) ---------------------------------------------------
\* C10: a published post is frozen.  No step of the web routes, the CLI
\* edit command or the publish engine changes the content or the platforms
\* of a post that has published = 1.
C10_PublishedFrozen ==
  [][\A id \in PostIds :
       (posts[id].exists /\ posts[id].published = 1 /\ posts'[id].exists) =>
         /\ posts'[id].content = posts[id].content
         /\ posts'[id].platforms = posts[id].platforms]_vars

\* ---- C11 (Spec) -------------------------------------------------------
\* C11: date-time eligibility is an exact instant comparison.  A sweep
\* lists a post whose publish_date carries a time of day only when that
\* instant has passed; the clock never runs backwards, so the instant of
\* every such post on a sweep's list is at or before now.
C11_DateTimeExactInstant ==
  \A t \in TaskIds :
    tasks[t].kind \in SweepKinds =>
      \A n \in 1..Len(tasks[t].list) :
        posts[tasks[t].list[n].id].publish_date.kind = "datetime" =>
          ParseDate(posts[tasks[t].list[n].id].publish_date, tz) <= now

\* ---- C12 (SpecClock) --------------------------------------------------
\* C12: date-only eligibility.  For a post scheduled for calendar day D,
\* the evaluator of the sweep and the check of the publish route let the
\* post through exactly when now is at or after the start of day D on the
\* machine's calendar.
C12_DateOnlyFromStartOfDay ==
  \A id \in PostIds :
    (posts[id].exists /\ posts[id].publish_date.kind = "date") =>
      /\ isEligibleForPublishing(posts[id], now, tz)
           <=> now >= posts[id].publish_date.day * DayLen - tz
      /\ webEligible(posts[id], now, tz)
           <=> now >= posts[id].publish_date.day * DayLen - tz

\* ---- C13 (Spec) -------------------------------------------------------
\* C13: empty platform set.  A publish request for an unpublished post
\* that is due and has no platforms succeeds at once, marks the post
\* published, and its result map is empty.
C13_EmptyPlatformsSucceed ==
  [][\A t \in TaskIds, id \in PostIds :
       (/\ tasks[t].kind = "none" /\ tasks'[t].kind = "web"
        /\ tasks'[t].req = id
        /\ posts[id].exists /\ posts[id].published = 0
        /\ posts[id].platforms = <<>>
        /\ webEligible(posts[id], now, tz)) =>
         /\ tasks'[t].resp = "200 published"
         /\ tasks'[t].results = EmptyResults
         /\ posts'[id].published = 1]_vars

\* ---- C14 (Spec) -------------------------------------------------------
\* C14: every publish attempt is audited.  The step that follows the
\* return of SocialAPI.post appends exactly one post-level log entry:
\* post_published when a platform succeeded, post_publish_failed when all
\* failed.
C14_EveryAttemptAudited ==
  [][\A t \in TaskIds :
       (tasks[t].pc = "aggregate" /\ tasks'[t] # tasks[t]) =>
         /\ Len(log') = Len(log) + 1
         /\ log'[Len(log')] =
              LogEntry(IF anySuccess(tasks[t].results)
                         THEN "post_published" ELSE "post_publish_failed",
                       tasks[t].list[tasks[t].i].id)]_vars

\* ---- C15 (Spec) -------------------------------------------------------
\* C15: logging is best-effort.  Whatever happens to the log writes, an
\* iteration of the fan-out that delivered records a success and the call
\* goes on to the next platform or returns; and a caller that saw a
\* success marks the post published and answers with success.
C15_LoggingBestEffort ==
  [][\A t \in TaskIds :
       /\ (tasks[t].pc = "fanout" /\ tasks'[t] # tasks[t]) =>
            /\ tasks'[t].pc \in {"fanout", "aggregate"}
            /\ tasks'[t].i = tasks[t].i
            /\ delivered' # delivered =>
                 tasks'[t].results[ToLower(tasks[t].list[tasks[t].i].platforms[tasks[t].j])]
                   = "ok"
       /\ (/\ tasks[t].pc = "aggregate" /\ tasks'[t] # tasks[t]
           /\ anySuccess(tasks[t].results)
           /\ posts[tasks[t].list[tasks[t].i].id].exists) =>
            /\ posts'[tasks[t].list[tasks[t].i].id].published = 1
            /\ tasks[t].kind = "web" => tasks'[t].resp = "200 published"]_vars

\* ---- C16 (SpecFanout) -------------------------------------------------
\* C16: the success field of what SocialAPI.post returns is true exactly
\* when the entry of at least one requested platform is a success.
C16_SuccessIsAny ==
  \A t \in TaskIds :
    tasks[t].pc = "aggregate" =>
      (postReturn(tasks[t]).success <=> anySuccess(postReturn(tasks[t]).results))

\* ---- C17 (SpecFanout) -------------------------------------------------
\* C17: an unknown platform does not abort a multi-platform publish.  The
\* iteration of the fan-out for an identifier without adapter records a
\* failure for that identifier and the loop goes on with the next platform
\* (or returns after the last); a post whose attempt saw a success is
\* marked published.
C17_UnknownPlatformIsolated ==
  [][\A t \in TaskIds :
       /\ (/\ tasks[t].pc = "fanout" /\ tasks'[t] # tasks[t]
           /\ FactoryCreate(tasks[t].list[tasks[t].i].platforms[tasks[t].j]) = "none") =>
            /\ tasks'[t].results[ToLower(tasks[t].list[tasks[t].i].platforms[tasks[t].j])]
                 = "not_initialized"
            /\ tasks'[t].i = tasks[t].i
            /\ tasks'[t].j = tasks[t].j + 1
            /\ tasks'[t].pc =
                 IF tasks[t].j = Len(tasks[t].list[tasks[t].i].platforms)
                   THEN "aggregate" ELSE "fanout"
       /\ (/\ tasks[t].pc = "aggregate" /\ tasks'[t] # tasks[t]
           /\ tasks[t].results["nosuch"] # "none"
           /\ \E k \in Keys : tasks[t].results[k] = "ok") =>
            posts'[tasks[t].list[tasks[t].i].id].published = 1]_vars

\* ---- C18 (Spec) -------------------------------------------------------
\* C18: total failure leaves the post retryable.  An attempt without any
\* success leaves the posts table as it is, and a publish request for an
\* unpublished post that is due and has platforms is let through to the
\* fan-out; a sweep lists every unpublished post that is due.
C18_TotalFailureRetryable ==
  [][\A t \in TaskIds :
       /\ (/\ tasks[t].pc \in {"fanout", "aggregate"} /\ tasks'[t] # tasks[t]
           /\ \A k \in Keys : tasks'[t].results[k] # "ok"
           /\ \A k \in Keys : tasks[t].results[k] # "ok") =>
            posts' = posts
       /\ \A id \in PostIds :
            (/\ tasks[t].kind = "none" /\ tasks'[t].kind = "web"
             /\ tasks'[t].req = id
             /\ posts[id].exists /\ posts[id].published = 0
             /\ posts[id].platforms # <<>>
             /\ webEligible(posts[id], now, tz)) =>
              /\ tasks'[t].pc = "fanout"
              /\ tasks'[t].list = <<Snapshot(posts, id)>>
       /\ \A id \in PostIds :
            (/\ tasks[t].kind = "none" /\ tasks'[t].kind \in SweepKinds
             /\ posts[id].exists /\ posts[id].published = 0
             /\ isEligibleForPublishing(posts[id], now, tz)) =>
              \E n \in 1..Len(tasks'[t].list) : tasks'[t].list[n].id = id]_vars

\* A new attempt on the only post has started after an attempt in which
\* Bluesky failed and the failure was logged; nothing was ever delivered.
C18_Witness ==
  \E t \in TaskIds :
    /\ tasks[t].pc = "fanout" /\ tasks[t].j = 1
    /\ \A u \in TaskIds \ {t} : tasks[u].kind = "none"
    /\ \A id \in PostIds : posts[id].exists <=> id = tasks[t].list[tasks[t].i].id
    /\ posts[tasks[t].list[tasks[t].i].id].published = 0
    /\ \A k \in Keys : delivered[tasks[t].list[tasks[t].i].id][k] = 0
    /\ \E n \in 1..Len(log) : log[n] = LogEntry("post_error", "bluesky")

\* ---- C19 (SpecStore) --------------------------------------------------
\* C19: markAsPublished is idempotent and reports the transition.  A call
\* for a stored post leaves it published, and its result is non-zero
\* exactly when the post was unpublished before the call.
C19_MarkReportsTransition ==
  (ret.op = "markAsPublished" /\ ret.before[ret.id].exists) =>
    /\ posts[ret.id].published = 1
    /\ ret.ok <=> ret.before[ret.id].published = 0

\* ---- C20 (SpecEdit) ---------------------------------------------------
\* C20: no post with empty content is ever stored: every stored post has
\* non-empty content, whichever path created it.
C20_ContentNonEmpty ==
  \A id \in PostIds : posts[id].exists => posts[id].content # ""

C22_ListOrdering ==
  ret.op = "getPosts" =>
    LET list == getPosts(ret.before, ret.id)
        key(id) == IF ret.before[id].publish_date.kind \in {"null", "empty"}
                     THEN 0 ELSE DateRank(ret.before[id].publish_date)
    IN /\ {list[n] : n \in 1..Len(list)} =
            {id \in PostIds : ret.before[id].exists /\ ret.before[id].published = ret.id}
       /\ \A m, n \in 1..Len(list) :
            m < n => \/ key(list[m]) < key(list[n])
                     \/ key(list[m]) = key(list[n]) /\ list[m] < list[n]

\* ---- C23 (SpecEdit) ---------------------------------------------------
\* C23: the action log is append-only.  Over every step of create, edit,
\* publish, sweep, delete and clean, the log before the step is a prefix
\* of the log after it: no entry is changed or removed.
C23_LogAppendOnly ==
  [][/\ Len(log) <= Len(log')
     /\ \A n \in 1..Len(log) : log'[n] = log[n]]_vars

\* A clean was logged after an earlier entry, which is still in place.
C23_Witness ==
  /\ Len(log) = EditLog
  /\ log[Len(log)].action = "posts_cleaned"
  /\ log[1].action # "posts_cleaned"

\* ---- C24 (SpecContinuous) ---------------------------------------------
\* C24: continuous mode survives cycle errors.  Whatever a cycle meets, a
\* failure to list the posts included, the scheduler is stopped only by an
\* explicit stop: the initial cycle is followed by scheduling, and a
\* scheduled job stays scheduled, so that every later tick runs a cycle.
C24_ContinuousSurvivesErrors ==
  [][/\ cron = "initial" => cron' \in {"initial", "scheduled", "stopped"}
     /\ cron = "scheduled" => cron' \in {"scheduled", "stopped"}
     /\ (cron = "scheduled" /\ tasks[1].kind = "none") => ENABLED CronTick(1)]_vars

\* A cycle failed to list the posts and a later tick is publishing.
C24_Witness ==
  /\ ret.op = "cycle_error"
  /\ cron = "scheduled"
  /\ tasks[1].kind = "tick"
  /\ tasks[1].pc = "fanout"

\* ---- C27 (SpecContinuousFair) -----------------------------------------
\* C27: eventual publication.  In continuous mode with ticks firing
\* fairly, a post with platforms for which an attempt recorded a platform
\* success is eventually marked published, unless the mode is stopped.
C27_EventualPublication ==
  \A id \in PostIds :
    [](successSeen[id] => <>(posts[id].published = 1 \/ cron = "stopped"))

\* ---- C25 (SpecAdapter) ------------------------------------------------
\* C25: authenticate before publish, cached per adapter.  In every platform
\* attempt of SocialAPI.post the publish request goes out only on an
\* adapter whose authenticated flag is true, and an adapter that is already
\* authenticated is not authenticated again: its flag stays and the attempt
\* cannot end in an authentication error.
C25_AuthenticateOnceBeforePublish ==
  [][\A t \in TaskIds :
       (tasks[t].pc = "fanout" /\ tasks'[t] # tasks[t]) =>
         LET cur == tasks[t].list[tasks[t].i]
             key == ToLower(cur.platforms[tasks[t].j])
             p == ProcOf(tasks[t])
         IN /\ delivered'[cur.id][key] # delivered[cur.id][key] =>
                 adapters'[p][key].authenticated
            /\ adapters[p][key].authenticated =>
                 /\ adapters'[p][key] = adapters[p][key]
                 /\ tasks'[t].results[key] \notin {"auth_failed", "not_configured"}]_vars

\* Two deliveries went out through the one authenticated Bluesky adapter.
C25_Witness ==
  /\ adapters["web"]["bluesky"].authenticated
  /\ \E id \in PostIds : delivered[id]["bluesky"] >= 2

\* ---- C26 (SpecFanout) -------------------------------------------------
\* Two identifiers that differ in letter case only.
SameButCase(a, b) ==
  \/ a = b
  \/ {a, b} = {"Bluesky", "bluesky"}
  \/ {a, b} = {"X", "x"}

\* C26: adapter resolution is case-insensitive.  Whenever SocialAPI.post
\* handles an identifier, every identifier that differs from it in letter
\* case only resolves to the same adapter type, is served by the same
\* cached instance with the same outcome, and the result is recorded under
\* the one lower-cased key.
C26_CaseInsensitiveResolution ==
  [][\A t \in TaskIds :
       (tasks[t].pc = "fanout" /\ tasks'[t] # tasks[t]) =>
         LET cur == tasks[t].list[tasks[t].i]
             ident == cur.platforms[tasks[t].j]
             p == ProcOf(tasks[t])
         IN /\ \A other \in Idents :
                 SameButCase(ident, other) =>
                   /\ FactoryCreate(ident) = FactoryCreate(other)
                   /\ \A net \in NetAnswers :
                        platformAttempt(adapters[p], ident, cur.content, env, net) =
                        platformAttempt(adapters[p], other, cur.content, env, net)
            /\ \A k \in Keys :
                 (/\ tasks'[t].i = tasks[t].i
                  /\ \/ tasks'[t].results[k] # tasks[t].results[k]
                     \/ adapters'[p][k] # adapters[p][k]) =>
                   SameButCase(ident, k)]_vars

\* "Bluesky" was published through the adapter cached under "bluesky".
C26_Witness ==
  /\ tasks[1].pc \in {"fanout", "aggregate"}
  /\ tasks[1].list[1].platforms[1] = "Bluesky"
  /\ tasks[1].j >= 2
  /\ tasks[1].results["bluesky"] = "ok"
  /\ adapters[ProcOf(tasks[1])]["bluesky"].authenticated

\* ---- C28 (SpecClock) --------------------------------------------------
\* C28: the sweep and the publish route agree on eligibility.  For every
\* publish_date and every now, isEligibleForPublishing of the sweep is true
\* exactly when the date check of POST /api/publish/:id lets the post
\* through.
C28_SweepAndWebAgree ==
  \A id \in PostIds :
    posts[id].exists =>
      (isEligibleForPublishing(posts[id], now, tz) <=> webEligible(posts[id], now, tz))

\* ---- C29 (SpecFanout) -------------------------------------------------
\* C29: at most one delivery per delivery target per publish call.  Within
\* one call of SocialAPI.post an adapter's publish request goes out only if
\* no earlier iteration of the same call already delivered to that target,
\* under the same identifier, another spelling of it, or an alias.
C29_OneDeliveryPerTarget ==
  [][\A t \in TaskIds :
       LET cur == tasks[t].list[tasks[t].i]
           key == ToLower(cur.platforms[tasks[t].j])
       IN (/\ tasks[t].pc = "fanout"
           /\ tasks'[t] # tasks[t]
           /\ delivered'[cur.id][key] # delivered[cur.id][key]) =>
            \A k \in Keys :
              FactoryCreate(k) = FactoryCreate(key) =>
                tasks[t].results[k] \notin {"ok", "log_failed"}]_vars

\* ---- C30 (SpecEdit) ---------------------------------------------------
\* Answers of the publish route that refuse the request for the post's own
\* state.
Refusals == {"404 not found", "400 no platforms", "400 scheduled for future"}

\* C30: refused publish requests have no side effects.  When the publish
\* route refuses a request because the post does not exist, has no
\* platforms or is scheduled for a future time, the request is over at
\* once, and neither that step nor the end of the request uses an adapter,
\* changes a post row or appends a log entry.
C30_RefusalHasNoEffect ==
  [][\A t \in TaskIds :
       /\ \A id \in PostIds :
            (/\ tasks[t].kind = "none" /\ tasks'[t].kind = "web"
             /\ tasks'[t].req = id
             /\ \/ ~posts[id].exists
                \/ posts[id].published = 0 /\ posts[id].platforms = <<>>
                \/ posts[id].published = 0 /\ ~webEligible(posts[id], now, tz)) =>
              /\ tasks'[t].pc = "done"
              /\ tasks'[t].resp \in Refusals
              /\ posts' = posts /\ log' = log
              /\ adapters' = adapters /\ delivered' = delivered
       /\ (/\ tasks[t].kind = "web" /\ tasks[t].resp \in Refusals
           /\ tasks'[t] # tasks[t]) =>
            /\ tasks'[t] = IdleTask
            /\ posts' = posts /\ log' = log
            /\ adapters' = adapters /\ delivered' = delivered]_vars

\* A request for a post scheduled later today was refused, after an
\* earlier entry of the log.
C30_Witness ==
  /\ tasks[1].kind = "web"
  /\ tasks[1].resp = "400 scheduled for future"
  /\ posts[tasks[1].req].exists
  /\ posts[tasks[1].req].published = 0
  /\ posts[tasks[1].req].platforms # <<>>
  /\ log # <<>>

====
